---------------------------- MODULE Spec2Model ----------------------------
(***************************************************************************)
(* A model of exa's command-line options parser (src/options/parser.rs):   *)
(* Args::parse with its two registry lookups and split_on_equals, and the  *)
(* three queries of MatchedFlags (has, get, count).                        *)
(*                                                                         *)
(* A byte is a one-character string, an OsStr is a sequence of bytes, and  *)
(* an Option<T> is a sequence of at most one T: None is <<>> and Some(v)   *)
(* is <<v>>.                                                               *)
(***************************************************************************)
EXTENDS Integers, Sequences, FiniteSets, TLC

\* ------------------------------------------------------------------ bounds
\* The largest number of bytes of one parse input, all tokens together.
MaxBytes == 5
\* The largest number of tokens of one parse input.
MaxTokens == 3
\* The longest matched-flags sequence the queries are applied to.
MaxFlags == 3

\* The bytes tokens are made of: the dash, the equals sign and two letters.
Bytes == {"-", "=", "l", "c"}

\* --------------------------------------------------------------- data types
None == <<>>
Some(v) == <<v>>

\* enum TakesValue
Necessary == "Necessary"
Forbidden == "Forbidden"

\* enum Flag
Short(short) == [kind |-> "Short", short |-> short]
Long(long) == [kind |-> "Long", long |-> long]

\* struct Arg
Arg(short, long, takes_value) ==
    [short |-> short, long |-> long, takes_value |-> takes_value]

\* enum ParseError
NeedsValue(flag) == [type |-> "NeedsValue", flag |-> flag]
ForbiddenValue(flag) == [type |-> "ForbiddenValue", flag |-> flag]
UnknownShortArgument(attempt) == [type |-> "UnknownShortArgument", short |-> attempt]
UnknownArgument(attempt) == [type |-> "UnknownArgument", long |-> attempt]

\* Result<T, ParseError>
Ok(value) == [kind |-> "Ok", value |-> value]
Err(error) == [kind |-> "Err", error |-> error]

\* struct Matches, with the MatchedFlags' vector as its flags
Matches(frees, flags) == [frees |-> frees, flags |-> flags]

\* Flag::matches
matches(flag, arg) ==
    IF flag.kind = "Short"
    THEN arg.short = Some(flag.short)
    ELSE arg.long = flag.long

\* ------------------------------------------------------------ the registry
\* The registry of the parser's tests, its long names cut to one byte.
TEST_ARGS ==
    << Arg(Some("l"), <<"l">>, Forbidden),
       Arg(Some("c"), <<"c">>, Necessary) >>

\* A registry whose short bytes and long names disagree: an Arg without a
\* short byte, and a short byte given to two Args of different policies.
CROSS_ARGS ==
    << Arg(None, <<"c">>, Forbidden),
       Arg(Some("c"), <<"l">>, Necessary),
       Arg(Some("c"), <<"c", "l">>, Forbidden),
       Arg(Some("l"), <<"l", "c">>, Forbidden) >>

Registries == {TEST_ARGS, CROSS_ARGS}

\* Iterator::find over the registry: the index of the first Arg from index i
\* on that satisfies the test, 0 when there is none.
RECURSIVE find_short(_, _, _)
find_short(args, short, i) ==
    IF i > Len(args) THEN 0
    ELSE IF args[i].short = Some(short) THEN i
    ELSE find_short(args, short, i + 1)

RECURSIVE find_long(_, _, _)
find_long(args, long, i) ==
    IF i > Len(args) THEN 0
    ELSE IF args[i].long = long THEN i
    ELSE find_long(args, long, i + 1)

\* Args::lookup_short
lookup_short(args, short) ==
    LET i == find_short(args, short, 1)
    IN  IF i # 0 THEN Ok(args[i]) ELSE Err(UnknownShortArgument(short))

\* Args::lookup_long
lookup_long(args, long) ==
    LET i == find_long(args, long, 1)
    IN  IF i # 0 THEN Ok(args[i]) ELSE Err(UnknownArgument(long))

\* --------------------------------------------------------- split_on_equals
\* Iterator::position: the index of the first `=` of input from index i on,
\* 0 when there is none.
RECURSIVE position(_, _)
position(input, i) ==
    IF i > Len(input) THEN 0
    ELSE IF input[i] = "=" THEN i
    ELSE position(input, i + 1)

\* Iterator::rposition: the index of the last `=` of input up to index i.
RECURSIVE rposition(_, _)
rposition(input, i) ==
    IF i = 0 THEN 0
    ELSE IF input[i] = "=" THEN i
    ELSE rposition(input, i - 1)

\* split_on_equals at the last `=` instead of the first.
split_on_last_equals(input) ==
    LET index == rposition(input, Len(input))
    IN  IF index # 0
        THEN LET before == SubSeq(input, 1, index - 1)
                 after == SubSeq(input, index, Len(input))
             IN  IF Len(before) >= 1 /\ Len(after) >= 2
                 THEN Some(<<before, SubSeq(after, 2, Len(after))>>)
                 ELSE None
        ELSE None

\* split_on_equals: Some(<<before, after>>) or None.
split_on_equals(input) ==
    LET index == position(input, 1)
    IN  IF index # 0
        THEN LET before == SubSeq(input, 1, index - 1)
                 after == SubSeq(input, index, Len(input))
             IN  IF Len(before) >= 1 /\ Len(after) >= 2
                 THEN Some(<<before, SubSeq(after, 2, Len(after))>>)
                 ELSE None
        ELSE None

\* slice::starts_with
starts_with(bytes, prefix) ==
    /\ Len(bytes) >= Len(prefix)
    /\ SubSeq(bytes, 1, Len(prefix)) = prefix


\* ----------------------------------------------------- MatchedFlags queries
\* The find of `has` over the reversed vector, from index i down: the entry
\* nearest the end that has no value and matches, None when there is none.
RECURSIVE rfind_none(_, _, _)
rfind_none(flags, arg, i) ==
    IF i = 0 THEN None
    ELSE IF flags[i][2] = None /\ matches(flags[i][1], arg) THEN Some(flags[i])
    ELSE rfind_none(flags, arg, i - 1)

\* The find of `get` over the reversed vector, from index i down.
RECURSIVE rfind_some(_, _, _)
rfind_some(flags, arg, i) ==
    IF i = 0 THEN None
    ELSE IF flags[i][2] # None /\ matches(flags[i][1], arg) THEN Some(flags[i])
    ELSE rfind_some(flags, arg, i - 1)

\* The filter and count of `count`, from index i up.
RECURSIVE filter_count(_, _, _)
filter_count(flags, arg, i) ==
    IF i > Len(flags) THEN 0
    ELSE (IF matches(flags[i][1], arg) THEN 1 ELSE 0)
         + filter_count(flags, arg, i + 1)

\* has with the test for a missing value left out of the find.
has_any_entry(flags, arg) ==
    \E i \in 1..Len(flags) : matches(flags[i][1], arg)

\* The find of get over the vector in its own order, from index i up.
RECURSIVE find_some(_, _, _)
find_some(flags, arg, i) ==
    IF i > Len(flags) THEN None
    ELSE IF flags[i][2] # None /\ matches(flags[i][1], arg) THEN Some(flags[i])
    ELSE find_some(flags, arg, i + 1)

\* get without the rev(): the entry nearest the start.
get_first(flags, arg) ==
    LET found == find_some(flags, arg, 1)
    IN  IF found = None THEN None ELSE Some(found[1][2][1])

\* count of the entries without a value only.
count_valueless(flags, arg) ==
    Cardinality({ i \in 1..Len(flags) :
                    flags[i][2] = None /\ matches(flags[i][1], arg) })

\* MatchedFlags::has
has(flags, arg) == rfind_none(flags, arg, Len(flags)) # None

\* MatchedFlags::get
get(flags, arg) ==
    LET found == rfind_some(flags, arg, Len(flags))
    IN  IF found = None THEN None ELSE Some(found[1][2][1])

\* MatchedFlags::count
count(flags, arg) == filter_count(flags, arg, 1)

\* ------------------------------------------------------ the short clusters
\* The outcome of a walk over a short-flag token: the flags vector after it,
\* whether it called inputs.next() for a value, and the error it returned
\* with, if any.
Outcome(flags, asked, err) == [flags |-> flags, asked |-> asked, err |-> err]

\* walk_cluster with the test for remaining bytes off by one: the last byte
\* of the token takes the empty rest of the token as its value.
RECURSIVE walk_cluster_off_by_one(_, _, _, _, _)
walk_cluster_off_by_one(args, bytes, index, flags, next_arg) ==
    IF index > Len(bytes) THEN Outcome(flags, FALSE, None)
    ELSE
      LET found == lookup_short(args, bytes[index])
          flag == Short(bytes[index])
      IN  IF found.kind = "Err" THEN Outcome(flags, FALSE, Some(found.error))
          ELSE IF found.value.takes_value = Forbidden
          THEN walk_cluster_off_by_one(args, bytes, index + 1,
                 Append(flags, <<flag, None>>), next_arg)
          ELSE Outcome(Append(flags,
                         <<flag, Some(SubSeq(bytes, index + 1, Len(bytes)))>>),
                       FALSE, None)

\* The loop over the bytes of a short-flag token without an equals, from
\* index `index` on (bytes[1] is the dash).  `next_arg` is what inputs.next()
\* gives if it is called: Some(token), or None at the end of the input.
RECURSIVE walk_cluster(_, _, _, _, _)
walk_cluster(args, bytes, index, flags, next_arg) ==
    IF index > Len(bytes) THEN Outcome(flags, FALSE, None)
    ELSE
      LET found == lookup_short(args, bytes[index])
          flag == Short(bytes[index])
      IN  IF found.kind = "Err" THEN Outcome(flags, FALSE, Some(found.error))
          ELSE IF found.value.takes_value = Forbidden
          THEN walk_cluster(args, bytes, index + 1,
                            Append(flags, <<flag, None>>), next_arg)
          ELSE IF index < Len(bytes)
          THEN Outcome(Append(flags,
                         <<flag, Some(SubSeq(bytes, index + 1, Len(bytes)))>>),
                       FALSE, None)
          ELSE IF next_arg # None
          THEN Outcome(Append(flags, <<flag, Some(next_arg[1])>>), TRUE, None)
          ELSE Outcome(flags, TRUE, Some(NeedsValue(flag)))

\* walk_others with the policy of the specs not looked at: every byte is
\* recorded without a value.
RECURSIVE walk_others_any_policy(_, _, _, _)
walk_others_any_policy(args, other_args, index, flags) ==
    IF index > Len(other_args) THEN Outcome(flags, FALSE, None)
    ELSE
      LET found == lookup_short(args, other_args[index])
      IN  IF found.kind = "Err" THEN Outcome(flags, FALSE, Some(found.error))
          ELSE walk_others_any_policy(args, other_args, index + 1,
                 Append(flags, <<Short(other_args[index]), None>>))

\* The loop over other_args, the bytes before the last one of the part
\* before the equals, from index `index` on.
RECURSIVE walk_others(_, _, _, _)
walk_others(args, other_args, index, flags) ==
    IF index > Len(other_args) THEN Outcome(flags, FALSE, None)
    ELSE
      LET found == lookup_short(args, other_args[index])
          flag == Short(other_args[index])
      IN  IF found.kind = "Err" THEN Outcome(flags, FALSE, Some(found.error))
          ELSE IF found.value.takes_value = Forbidden
          THEN walk_others(args, other_args, index + 1,
                           Append(flags, <<flag, None>>))
          ELSE Outcome(flags, FALSE, Some(NeedsValue(flag)))

\* walk_equals with the last byte before the equals looked up before the
\* bytes in front of it.
walk_equals_last_first(args, before, after, flags) ==
    LET arg_with_value == before[Len(before)]
        other_args == SubSeq(before, 1, Len(before) - 1)
        found == lookup_short(args, arg_with_value)
    IN  IF found.kind = "Err" THEN Outcome(flags, FALSE, Some(found.error))
        ELSE IF found.value.takes_value = Forbidden
        THEN Outcome(flags, FALSE,
                     Some(ForbiddenValue(Short(found.value.short[1]))))
        ELSE
          LET others == walk_others(args, other_args, 1, flags)
          IN  IF others.err # None THEN others
              ELSE Outcome(Append(others.flags,
                             <<Short(found.value.short[1]), Some(after)>>),
                           FALSE, None)

\* walk_equals with the policy of the last byte's spec not looked at: the
\* value after the equals is recorded whatever the policy.
walk_equals_any_policy(args, before, after, flags) ==
    LET arg_with_value == before[Len(before)]
        other_args == SubSeq(before, 1, Len(before) - 1)
        others == walk_others(args, other_args, 1, flags)
    IN  IF others.err # None THEN others
        ELSE
          LET found == lookup_short(args, arg_with_value)
          IN  IF found.kind = "Err"
              THEN Outcome(others.flags, FALSE, Some(found.error))
              ELSE Outcome(Append(others.flags,
                             <<Short(found.value.short[1]), Some(after)>>),
                           FALSE, None)

\* The branch of a short-flag token with an equals: the bytes before the
\* last one of `before`, then the last one with the value `after`.
walk_equals(args, before, after, flags) ==
    LET arg_with_value == before[Len(before)]
        other_args == SubSeq(before, 1, Len(before) - 1)
        others == walk_others(args, other_args, 1, flags)
    IN  IF others.err # None THEN others
        ELSE
          LET found == lookup_short(args, arg_with_value)
          IN  IF found.kind = "Err"
              THEN Outcome(others.flags, FALSE, Some(found.error))
              ELSE
                LET flag == Short(found.value.short[1])
                IN  IF found.value.takes_value = Necessary
                    THEN Outcome(Append(others.flags, <<flag, Some(after)>>),
                                 FALSE, None)
                    ELSE Outcome(others.flags, FALSE,
                                 Some(ForbiddenValue(flag)))

\* ------------------------------------------------------------------- state
VARIABLES
    registry,      \* self.0, the Args the parser looks flags up in
    inputs,        \* the tokens the iterator `inputs` has yielded, in order
    parsing,       \* the local `parsing`
    result_flags,  \* the local `result_flags`
    frees,         \* the local `frees`
    split,         \* the split_on_equals call of the last iteration, if any
    uses,          \* what each yielded token was used as, in order
    ret,           \* None while parse runs, Some(result) once it has returned
    answer         \* the last query made of the returned MatchedFlags, if any

vars == <<registry, inputs, parsing, result_flags, frees, split, uses, ret,
          answer>>

Init ==
    /\ registry \in Registries
    /\ inputs = <<>>
    /\ parsing = TRUE
    /\ result_flags = <<>>
    /\ frees = <<>>
    /\ split = None
    /\ uses = <<>>
    /\ ret = None
    /\ answer = None

\* The number of bytes of a sequence of tokens.
RECURSIVE TotalBytes(_)
TotalBytes(tokens) ==
    IF tokens = <<>> THEN 0 ELSE Len(Head(tokens)) + TotalBytes(Tail(tokens))

\* The tokens of at most n bytes.
TokensUpTo(n) == UNION { [1..m -> Bytes] : m \in 0..n }

\* The tokens inputs.next() can yield after the tokens `yielded`, within the
\* bounds on the input.
Yieldable(yielded) ==
    IF Len(yielded) < MaxTokens
    THEN TokensUpTo(MaxBytes - TotalBytes(yielded))
    ELSE {}

\* What inputs.next() can return after the tokens `yielded`: a token, or None
\* at the end of the input.
NextItems(yielded) == {None} \cup { Some(t) : t \in Yieldable(yielded) }

DashDash == <<"-", "-">>
Dash == <<"-">>

\* The record of a split_on_equals call.
SplitCall(input) == Some([input |-> input, result |-> split_on_equals(input)])

\* IsLong with the test of `parsing` left out.
IsLong_while_not_parsing(arg) == arg # DashDash /\ starts_with(arg, DashDash)

\* Whether the loop takes the token `arg` as a long argument, and as one or
\* more short arguments.
IsLong(arg) == parsing /\ arg # DashDash /\ starts_with(arg, DashDash)
IsShort(arg) == parsing /\ ~starts_with(arg, DashDash)
                   /\ starts_with(arg, Dash) /\ arg # Dash

\* if !parsing { frees.push(arg) }
FreeAfterSentinel ==
    /\ ret = None
    /\ ~parsing
    /\ \E arg \in Yieldable(inputs) :
         /\ inputs' = Append(inputs, arg)
         /\ frees' = Append(frees, arg)
    /\ uses' = Append(uses, "free")
    /\ split' = None
    /\ UNCHANGED <<registry, parsing, result_flags, ret, answer>>

\* Sentinel with the `--` token pushed onto frees as well.
Sentinel_pushed ==
    /\ ret = None
    /\ parsing
    /\ DashDash \in Yieldable(inputs)
    /\ inputs' = Append(inputs, DashDash)
    /\ parsing' = FALSE
    /\ frees' = Append(frees, DashDash)
    /\ uses' = Append(uses, "sentinel")
    /\ split' = None
    /\ UNCHANGED <<registry, result_flags, ret, answer>>

\* else if arg == "--" { parsing = false; }
Sentinel ==
    /\ ret = None
    /\ parsing
    /\ DashDash \in Yieldable(inputs)
    /\ inputs' = Append(inputs, DashDash)
    /\ parsing' = FALSE
    /\ uses' = Append(uses, "sentinel")
    /\ split' = None
    /\ UNCHANGED <<registry, result_flags, frees, ret, answer>>

\* A long argument with an equals in it.
LongEquals ==
    /\ ret = None
    /\ \E arg \in Yieldable(inputs) :
         /\ IsLong(arg)
         /\ LET long_arg_name == SubSeq(arg, 3, Len(arg))
                sp == split_on_equals(long_arg_name)
            IN  /\ sp # None
                /\ split' = SplitCall(long_arg_name)
                /\ LET before == sp[1][1]
                       after == sp[1][2]
                       found == lookup_long(registry, before)
                   IN  IF found.kind = "Err"
                       THEN /\ ret' = Some(Err(found.error))
                            /\ UNCHANGED result_flags
                       ELSE LET flag == Long(found.value.long)
                            IN  IF found.value.takes_value = Necessary
                                THEN /\ result_flags' =
                                          Append(result_flags,
                                                 <<flag, Some(after)>>)
                                     /\ UNCHANGED ret
                                ELSE /\ ret' = Some(Err(ForbiddenValue(flag)))
                                     /\ UNCHANGED result_flags
         /\ inputs' = Append(inputs, arg)
    /\ uses' = Append(uses, "flag")
    /\ UNCHANGED <<registry, parsing, frees, answer>>

\* LongNoEquals with the token taken as the value tested for `--` as well:
\* a `--` taken as a value ends the parsing of options.
LongNoEquals_value_ends_options ==
    /\ ret = None
    /\ \E arg \in Yieldable(inputs) :
         /\ IsLong(arg)
         /\ LET long_arg_name == SubSeq(arg, 3, Len(arg))
                found == lookup_long(registry, long_arg_name)
            IN  /\ split_on_equals(long_arg_name) = None
                /\ split' = SplitCall(long_arg_name)
                /\ IF found.kind = "Err"
                   THEN /\ ret' = Some(Err(found.error))
                        /\ inputs' = Append(inputs, arg)
                        /\ uses' = Append(uses, "flag")
                        /\ UNCHANGED <<result_flags, parsing>>
                   ELSE LET flag == Long(found.value.long)
                        IN  IF found.value.takes_value = Forbidden
                            THEN /\ result_flags' =
                                      Append(result_flags, <<flag, None>>)
                                 /\ inputs' = Append(inputs, arg)
                                 /\ uses' = Append(uses, "flag")
                                 /\ UNCHANGED <<ret, parsing>>
                            ELSE \E next_arg \in NextItems(Append(inputs, arg)) :
                                   IF next_arg # None
                                   THEN /\ result_flags' =
                                             Append(result_flags,
                                                    <<flag, Some(next_arg[1])>>)
                                        /\ inputs' = inputs \o <<arg, next_arg[1]>>
                                        /\ uses' = uses \o <<"flag", "value">>
                                        /\ parsing' = (next_arg[1] # DashDash)
                                        /\ UNCHANGED ret
                                   ELSE /\ ret' = Some(Err(NeedsValue(flag)))
                                        /\ inputs' = Append(inputs, arg)
                                        /\ uses' = Append(uses, "flag")
                                        /\ UNCHANGED <<result_flags, parsing>>
    /\ UNCHANGED <<registry, frees, answer>>

\* A long argument without an equals: the value, if one is needed, is the
\* next token.
LongNoEquals ==
    /\ ret = None
    /\ \E arg \in Yieldable(inputs) :
         /\ IsLong(arg)
         /\ LET long_arg_name == SubSeq(arg, 3, Len(arg))
                found == lookup_long(registry, long_arg_name)
            IN  /\ split_on_equals(long_arg_name) = None
                /\ split' = SplitCall(long_arg_name)
                /\ IF found.kind = "Err"
                   THEN /\ ret' = Some(Err(found.error))
                        /\ inputs' = Append(inputs, arg)
                        /\ uses' = Append(uses, "flag")
                        /\ UNCHANGED result_flags
                   ELSE LET flag == Long(found.value.long)
                        IN  IF found.value.takes_value = Forbidden
                            THEN /\ result_flags' =
                                      Append(result_flags, <<flag, None>>)
                                 /\ inputs' = Append(inputs, arg)
                                 /\ uses' = Append(uses, "flag")
                                 /\ UNCHANGED ret
                            ELSE \E next_arg \in NextItems(Append(inputs, arg)) :
                                   IF next_arg # None
                                   THEN /\ result_flags' =
                                             Append(result_flags,
                                                    <<flag, Some(next_arg[1])>>)
                                        /\ inputs' = inputs \o <<arg, next_arg[1]>>
                                        /\ uses' = uses \o <<"flag", "value">>
                                        /\ UNCHANGED ret
                                   ELSE /\ ret' = Some(Err(NeedsValue(flag)))
                                        /\ inputs' = Append(inputs, arg)
                                        /\ uses' = Append(uses, "flag")
                                        /\ UNCHANGED result_flags
    /\ UNCHANGED <<registry, parsing, frees, answer>>

\* One or more short arguments with an equals after them.
ShortEquals ==
    /\ ret = None
    /\ \E arg \in Yieldable(inputs) :
         /\ IsShort(arg)
         /\ LET short_arg == SubSeq(arg, 2, Len(arg))
                sp == split_on_equals(short_arg)
            IN  /\ sp # None
                /\ split' = SplitCall(short_arg)
                /\ LET out == walk_equals(registry, sp[1][1], sp[1][2],
                                          result_flags)
                   IN  /\ result_flags' = out.flags
                       /\ ret' = IF out.err = None THEN None
                                 ELSE Some(Err(out.err[1]))
         /\ inputs' = Append(inputs, arg)
    /\ uses' = Append(uses, "flag")
    /\ UNCHANGED <<registry, parsing, frees, answer>>

\* One or more short arguments without an equals.
ShortNoEquals ==
    /\ ret = None
    /\ \E arg \in Yieldable(inputs) :
         /\ IsShort(arg)
         /\ LET short_arg == SubSeq(arg, 2, Len(arg))
                asks == walk_cluster(registry, arg, 2, result_flags, None).asked
            IN  /\ split_on_equals(short_arg) = None
                /\ split' = SplitCall(short_arg)
                /\ \E next_arg \in (IF asks THEN NextItems(Append(inputs, arg))
                                    ELSE {None}) :
                     LET out == walk_cluster(registry, arg, 2, result_flags,
                                             next_arg)
                     IN  /\ result_flags' = out.flags
                         /\ ret' = IF out.err = None THEN None
                                   ELSE Some(Err(out.err[1]))
                         /\ IF out.asked /\ next_arg # None
                            THEN /\ inputs' = inputs \o <<arg, next_arg[1]>>
                                 /\ uses' = uses \o <<"flag", "value">>
                            ELSE /\ inputs' = Append(inputs, arg)
                                 /\ uses' = Append(uses, "flag")
    /\ UNCHANGED <<registry, parsing, frees, answer>>

\* FreeToken with the push onto frees left out.
FreeToken_dropped ==
    /\ ret = None
    /\ parsing
    /\ \E arg \in Yieldable(inputs) :
         /\ arg # DashDash
         /\ ~starts_with(arg, DashDash)
         /\ ~(starts_with(arg, Dash) /\ arg # Dash)
         /\ inputs' = Append(inputs, arg)
    /\ uses' = Append(uses, "free")
    /\ split' = None
    /\ UNCHANGED <<registry, parsing, result_flags, frees, ret, answer>>

\* Otherwise, it's a free string.
FreeToken ==
    /\ ret = None
    /\ parsing
    /\ \E arg \in Yieldable(inputs) :
         /\ arg # DashDash
         /\ ~starts_with(arg, DashDash)
         /\ ~(starts_with(arg, Dash) /\ arg # Dash)
         /\ inputs' = Append(inputs, arg)
         /\ frees' = Append(frees, arg)
    /\ uses' = Append(uses, "free")
    /\ split' = None
    /\ UNCHANGED <<registry, parsing, result_flags, ret, answer>>

\* inputs.next() is None at the head of the loop:
\* Ok(Matches { frees, flags }).
Return ==
    /\ ret = None
    /\ ret' = Some(Ok(Matches(frees, result_flags)))
    /\ UNCHANGED <<registry, inputs, parsing, result_flags, frees, split, uses,
                   answer>>

Next ==
    \/ FreeAfterSentinel
    \/ Sentinel
    \/ LongEquals
    \/ LongNoEquals
    \/ ShortEquals
    \/ ShortNoEquals
    \/ FreeToken
    \/ Return

Spec == Init /\ [][Next]_vars

\* ------------------------------------------- the queries, applied directly
\* The flags and values the matched-flags sequences of the queries are made of.
QueryFlags == {Short("l"), Short("c"), Long(<<"l">>), Long(<<"c">>)}
QueryValues == {None, Some(<<"l">>), Some(<<"c">>)}

\* The Args the queries are made with: every short byte, or none, with every
\* long name.
QueryArgs ==
    { Arg(short, long, IF short = Some("c") THEN Necessary ELSE Forbidden) :
        short \in {None, Some("l"), Some("c")},
        long \in {<<"l">>, <<"c">>} }

\* The matched-flags sequences of at most n entries.
FlagSeqs(n) == UNION { [1..m -> QueryFlags \X QueryValues] : m \in 0..n }

\* A MatchedFlags built directly from a vector, as the tests of the queries
\* build it, and no query made of it yet.
QInit ==
    /\ registry = TEST_ARGS
    /\ inputs = <<>>
    /\ parsing = TRUE
    /\ result_flags = <<>>
    /\ frees = <<>>
    /\ split = None
    /\ uses = <<>>
    /\ \E flags \in FlagSeqs(MaxFlags) : ret = Some(Ok(Matches(<<>>, flags)))
    /\ answer = None

\* The record of a query and its result.
Answer(query, arg, result) ==
    Some([query |-> query, arg |-> arg, result |-> result])

Returned == ret # None /\ ret[1].kind = "Ok"

\* matches.flags.has(arg)
Has ==
    /\ Returned
    /\ \E arg \in QueryArgs :
         answer' = Answer("has", arg, has(ret[1].value.flags, arg))
    /\ UNCHANGED <<registry, inputs, parsing, result_flags, frees, split, uses,
                   ret>>

\* matches.flags.get(arg)
Get ==
    /\ Returned
    /\ \E arg \in QueryArgs :
         answer' = Answer("get", arg, get(ret[1].value.flags, arg))
    /\ UNCHANGED <<registry, inputs, parsing, result_flags, frees, split, uses,
                   ret>>

\* matches.flags.count(arg)
Count ==
    /\ Returned
    /\ \E arg \in QueryArgs :
         answer' = Answer("count", arg, count(ret[1].value.flags, arg))
    /\ UNCHANGED <<registry, inputs, parsing, result_flags, frees, split, uses,
                   ret>>

QNext == Has \/ Get \/ Count

QSpec == QInit /\ [][QNext]_vars

\* =================================================================== claims
Min(S) == CHOOSE x \in S : \A y \in S : x <= y

ReturnedErr == ret # None /\ ret[1].kind = "Err"

\* The spec the registry gives for a recorded flag: by its short byte for a
\* Short flag, by its long name for a Long flag.
LookedUp(flag) ==
    IF flag.kind = "Short"
    THEN lookup_short(registry, flag.short)
    ELSE lookup_long(registry, flag.long)

\* C1: when parse succeeds, every entry of the returned matched flags has a
\* value exactly when the spec looked up for its flag is Necessary, and an
\* entry without a value is recorded only for a Forbidden spec.
C1_ValueIffNecessary ==
    Returned =>
      \A i \in 1..Len(ret[1].value.flags) :
        LET entry == ret[1].value.flags[i]
            found == LookedUp(entry[1])
        IN  /\ found.kind = "Ok"
            /\ (entry[2] # None) <=> (found.value.takes_value = Necessary)
            /\ (entry[2] = None) => (found.value.takes_value = Forbidden)

\* C1's case: a successful parse whose matched flags hold an entry with a
\* value and an entry without one.
C1_Witness ==
    /\ Returned
    /\ \E i, j \in 1..Len(ret[1].value.flags) :
         /\ ret[1].value.flags[i][2] # None
         /\ ret[1].value.flags[j][2] = None

\* The number of elements of the sequence `tokens` that equal `token`.
Occurrences(tokens, token) ==
    Cardinality({ i \in 1..Len(tokens) : tokens[i] = token })

\* C2, as stated: when parse succeeds, no element of the returned frees is
\* the token `--`.
C2_NoDashDashInFrees ==
    Returned =>
      \A i \in 1..Len(ret[1].value.frees) : ret[1].value.frees[i] # DashDash

\* C2, amended: when parse succeeds, the returned frees hold one `--` for
\* each `--` token of the input that comes after the `--` that ended the
\* parsing of options, and no other: the `--` that ends the parsing of
\* options is never in frees.
C2_DashDashOnlyAfterSentinel ==
    Returned =>
      Occurrences(ret[1].value.frees, DashDash) =
        Cardinality({ i \in 1..Len(inputs) :
                        /\ inputs[i] = DashDash
                        /\ \E j \in 1..(i - 1) : uses[j] = "sentinel" })

\* C2's case: a successful parse of an input with a `--` and tokens around
\* it, whose frees are not empty and hold no `--`.
C2_Witness ==
    /\ Returned
    /\ \E j \in 1..Len(uses) : uses[j] = "sentinel" /\ 1 < j /\ j < Len(uses)
    /\ ret[1].value.frees # <<>>
    /\ Occurrences(ret[1].value.frees, DashDash) = 0

\* C3: once `--` has cleared `parsing`, it stays false: every later token is
\* appended to frees as it is, none adds a matched flag, and none makes the
\* parse fail.
C3_AfterSentinelAllFree ==
    [][ ~parsing =>
          /\ ~parsing'
          /\ result_flags' = result_flags
          /\ ~ReturnedErr'
          /\ IF inputs' # inputs
             THEN /\ Len(inputs') = Len(inputs) + 1
                  /\ SubSeq(inputs', 1, Len(inputs)) = inputs
                  /\ frees' = Append(frees, inputs'[Len(inputs')])
             ELSE frees' = frees ]_vars

\* C3's case: after a `--`, a token that looks like a short flag and another
\* token have been appended to frees, in the order of the input.
C3_Witness ==
    /\ ~parsing
    /\ Len(inputs) >= 3
    /\ uses[Len(uses) - 2] = "sentinel"
    /\ inputs[Len(inputs) - 1] = <<"-", "l">>
    /\ inputs[Len(inputs)] = <<"c">>
    /\ frees = <<<<"-", "l">>, <<"c">>>>
    /\ result_flags = <<>>

\* Whether the registry has a spec for the short byte, and that spec's policy.
Registered(byte) == \E i \in 1..Len(registry) : registry[i].short = Some(byte)
Policy(byte) ==
    registry[Min({ i \in 1..Len(registry) : registry[i].short = Some(byte) })]
      .takes_value
IsNecessary(byte) == Registered(byte) /\ Policy(byte) = Necessary
IsForbidden(byte) == Registered(byte) /\ Policy(byte) = Forbidden

\* The error condition of a long-flag token, None when it has none.
\* `followed` is whether a token follows it in the input.
LongFault(token, followed) ==
    LET R == SubSeq(token, 3, Len(token))
        sp == split_on_equals(R)
        name == IF sp = None THEN R ELSE sp[1][1]
        specs == { i \in 1..Len(registry) : registry[i].long = name }
    IN  IF specs = {} THEN Some(UnknownArgument(name))
        ELSE LET spec == registry[Min(specs)]
             IN  IF sp # None /\ spec.takes_value = Forbidden
                 THEN Some(ForbiddenValue(Long(name)))
                 ELSE IF sp = None /\ spec.takes_value = Necessary /\ ~followed
                 THEN Some(NeedsValue(Long(name)))
                 ELSE None

\* The error condition of a short-flag token: the error of its leftmost
\* offending byte, None when no byte offends.
ShortFault(token, followed) ==
    LET R == SubSeq(token, 2, Len(token))
        sp == split_on_equals(R)
    IN  IF sp # None
        THEN \* every byte before the equals is looked at
          LET before == sp[1][1]
              n == Len(before)
              offending == { i \in 1..n :
                               \/ ~Registered(before[i])
                               \/ i < n /\ IsNecessary(before[i])
                               \/ i = n /\ IsForbidden(before[i]) }
          IN  IF offending = {} THEN None
              ELSE LET i == Min(offending)
                   IN  IF ~Registered(before[i])
                       THEN Some(UnknownShortArgument(before[i]))
                       ELSE IF i < n THEN Some(NeedsValue(Short(before[i])))
                       ELSE Some(ForbiddenValue(Short(before[i])))
        ELSE \* the bytes up to the first Necessary one are looked at
          LET n == Len(R)
              necessary == { i \in 1..n : IsNecessary(R[i]) }
              last == IF necessary = {} THEN n ELSE Min(necessary)
              offending == { i \in 1..last :
                               \/ ~Registered(R[i])
                               \/ IsNecessary(R[i]) /\ i = n /\ ~followed }
          IN  IF offending = {} THEN None
              ELSE LET i == Min(offending)
                   IN  IF ~Registered(R[i])
                       THEN Some(UnknownShortArgument(R[i]))
                       ELSE Some(NeedsValue(Short(R[i])))

Fault(token, followed) ==
    IF starts_with(token, DashDash)
    THEN LongFault(token, followed)
    ELSE ShortFault(token, followed)

\* C4: a parse that fails returns the error of the earliest flag token with
\* an error condition, and within a short-flag token of its leftmost
\* offending byte: no flag token before the failing one has an error
\* condition, the failing token is the last one taken from the input, the
\* result holds the error and no flags or frees, and nothing is taken from
\* the input afterwards.
C4_FailFast ==
    /\ [](ReturnedErr =>
            LET k == Len(inputs)
            IN  /\ k >= 1
                /\ uses[k] = "flag"
                /\ Some(ret[1].error) = Fault(inputs[k], FALSE)
                /\ \A j \in 1..(k - 1) :
                     uses[j] = "flag" =>
                       Fault(inputs[j], uses[j + 1] = "value") = None
                /\ DOMAIN ret[1] = {"kind", "error"})
    /\ [][ReturnedErr => (ret' = ret /\ inputs' = inputs)]_vars

\* C4's case: the parse failed on the second byte of a short-flag token that
\* has another unregistered byte after it, when an earlier token had been
\* added to frees and the first byte of the failing token to the flags.
C4_Witness ==
    /\ ReturnedErr
    /\ Len(inputs) >= 2
    /\ frees # <<>>
    /\ result_flags # <<>>
    /\ ret[1].error.type = "UnknownShortArgument"
    /\ Len(inputs[Len(inputs)]) >= 4
    /\ ret[1].error.short = inputs[Len(inputs)][3]
    /\ ~Registered(inputs[Len(inputs)][4])
    /\ inputs[Len(inputs)][4] # ret[1].error.short

\* Whether the entry's flag is the spec's: a Short flag by the spec's short
\* byte, a Long flag by the spec's long name.
SameIdentity(entry, spec) ==
    \/ entry[1].kind = "Short" /\ spec.short # None
         /\ spec.short[1] = entry[1].short
    \/ entry[1].kind = "Long" /\ spec.long = entry[1].long

\* The positions of the entries of `flags` whose flag is the spec's.
Matching(flags, spec) ==
    { i \in 1..Len(flags) : SameIdentity(flags[i], spec) }

Max(S) == CHOOSE x \in S : \A y \in S : x >= y

Asked(query) == answer # None /\ answer[1].query = query

\* C5: get returns the value of the entry nearest the end that has a value
\* and whose flag is the spec's, short and long entries of the spec in one
\* order, and None exactly when there is no such entry.
C5_GetLastValue ==
    Asked("get") =>
      LET flags == ret[1].value.flags
          valued == { i \in Matching(flags, answer[1].arg) :
                        flags[i][2] # None }
      IN  /\ valued = {} <=> answer[1].result = None
          /\ valued # {} => answer[1].result = flags[Max(valued)][2]

\* C5's case: get answered with the value of the last of three entries of
\* the spec with values, a long one between two short ones of other values.
C5_Witness ==
    /\ Asked("get")
    /\ LET flags == ret[1].value.flags
       IN  /\ Len(flags) = 3
           /\ \A i \in 1..3 : SameIdentity(flags[i], answer[1].arg)
           /\ flags[1][1].kind = "Short" /\ flags[2][1].kind = "Long"
           /\ flags[3][1].kind = "Short"
           /\ flags[1][2] = Some(<<"c">>) /\ flags[2][2] = Some(<<"c">>)
           /\ flags[3][2] = Some(<<"l">>)
           /\ answer[1].result = Some(<<"l">>)

\* C6: has is true exactly when some entry without a value has the spec's
\* flag; entries with a value never make it true.
C6_HasValuelessEntry ==
    Asked("has") =>
      LET flags == ret[1].value.flags
      IN  answer[1].result =
            (\E i \in Matching(flags, answer[1].arg) : flags[i][2] = None)

\* C6's case: has answered false although entries of the spec are there, all
\* of them with a value.
C6_Witness ==
    /\ Asked("has")
    /\ LET flags == ret[1].value.flags
       IN  /\ Cardinality(Matching(flags, answer[1].arg)) >= 2
           /\ \A i \in Matching(flags, answer[1].arg) : flags[i][2] # None
           /\ answer[1].result = FALSE

\* C7: count is the number of entries whose flag is the spec's, short and
\* long ones together, with and without a value alike.
C7_CountAllOccurrences ==
    Asked("count") =>
      answer[1].result =
        Cardinality(Matching(ret[1].value.flags, answer[1].arg))

\* C7's case: count answered 3 for a short entry with a value, a long entry
\* without one and a short entry without one.
C7_Witness ==
    /\ Asked("count")
    /\ answer[1].result = 3
    /\ LET flags == ret[1].value.flags
       IN  /\ flags[1][1].kind = "Short" /\ flags[1][2] # None
           /\ flags[2][1].kind = "Long" /\ flags[2][2] = None
           /\ flags[3][1].kind = "Short" /\ flags[3][2] = None

\* A step of the loop that takes a token while options are being parsed.
TakesToken == ret = None /\ parsing /\ inputs' # inputs

\* The token such a step takes, and the number of tokens it takes.
Taken == inputs'[Len(inputs) + 1]
TakenCount == Len(inputs') - Len(inputs)

\* The entries without a value of the first m bytes of `bytes`.
Valueless(bytes, m) == [i \in 1..m |-> <<Short(bytes[i]), None>>]

C9_ClusterWithEquals ==
    [][ TakesToken =>
          LET R == SubSeq(Taken, 2, Len(Taken))
              sp == split_on_equals(R)
          IN  (IsShort(Taken) /\ sp # None) =>
                LET before == sp[1][1]
                    after == sp[1][2]
                    n == Len(before)
                    last == before[n]
                    early == { i \in 1..(n - 1) : IsNecessary(before[i]) }
                    e == IF early = {} THEN n ELSE Min(early)
                    others_ok == \A i \in 1..(n - 1) : IsForbidden(before[i])
                IN  /\ TakenCount = 1
                    /\ (others_ok /\ IsNecessary(last)) =>
                         /\ result_flags' =
                              Append(result_flags \o Valueless(before, n - 1),
                                     <<Short(last), Some(after)>>)
                         /\ ret' = None
                    /\ (others_ok /\ IsForbidden(last)) =>
                         ret' = Some(Err(ForbiddenValue(Short(last))))
                    /\ (e < n /\ \A i \in 1..(e - 1) : IsForbidden(before[i])) =>
                         ret' = Some(Err(NeedsValue(Short(before[e]))))
                    /\ ret' = None => (others_ok /\ IsNecessary(last)) ]_vars

\* C9's case: the token `-lc=l` has been parsed: `l` is recorded without a
\* value and `c` with the text after the `=`.
C9_Witness ==
    /\ ret = None
    /\ registry = TEST_ARGS
    /\ inputs = <<<<"-", "l", "c", "=", "l">>>>
    /\ split # None /\ split[1].result # None
    /\ result_flags = << <<Short("l"), None>>, <<Short("c"), Some(<<"l">>)>> >>

\* The split of R at position i: the part before it and the part after it.
SplitAt(R, i) == Some(<<SubSeq(R, 1, i - 1), SubSeq(R, i + 1, Len(R))>>)

\* C10, as stated: the remainder R of a flag token is split at the first `=`
\* that has a byte before it and a byte after it, and is not split when no
\* `=` of R has both.
C10_SplitAtFirstQualifyingEquals ==
    split # None =>
      LET R == split[1].input
          qualifying == { i \in 1..Len(R) :
                            R[i] = "=" /\ i > 1 /\ i < Len(R) }
      IN  split[1].result =
            IF qualifying = {} THEN None ELSE SplitAt(R, Min(qualifying))

\* C10, amended: the remainder R of a flag token is split at its first `=`
\* when that `=` has a byte before it and a byte after it, and is not split
\* otherwise, also when a later `=` of R has both.
C10_SplitAtFirstEquals ==
    split # None =>
      LET R == split[1].input
          equals == { i \in 1..Len(R) : R[i] = "=" }
      IN  split[1].result =
            IF equals # {} /\ Min(equals) > 1 /\ Min(equals) < Len(R)
            THEN SplitAt(R, Min(equals))
            ELSE None

\* C10's case: a remainder with two `=` has been split at the first one, the
\* second one left in the value.
C10_Witness ==
    /\ split # None
    /\ split[1].input = <<"c", "=", "=", "l">>
    /\ split[1].result = Some(<< <<"c">>, <<"=", "l">> >>)

\* Whether the token is a dash, one or more registered short bytes of which
\* all but the last are Forbidden, and a `=` with nothing after it.
EndsWithBareEquals(token) ==
    LET n == Len(token)
    IN  /\ n >= 3
        /\ token[1] = "-"
        /\ token[n] = "="
        /\ \A i \in 2..(n - 2) : IsForbidden(token[i])
        /\ Registered(token[n - 1])

\* C11: a short-flag token that ends with `=` and has nothing after it is a
\* parse error, whatever the policy of the byte before the `=`: the parse
\* returns an error at that token, and no entry with a value comes of it.
C11_BareEqualsIsError ==
    \A i \in 1..Len(inputs) :
      (uses[i] = "flag" /\ EndsWithBareEquals(inputs[i])) =>
        /\ ReturnedErr
        /\ i = Len(inputs)

\* Whether a `--` has ended the parsing of options before position i.
SentinelBefore(i) == \E j \in 1..(i - 1) : uses[j] = "sentinel"

\* Whether the token looks like a long or short flag, or like the `--`.
StartsWithDash(token) == starts_with(token, Dash) /\ token # Dash

\* C12: a token taken as the separate value of a Necessary flag is not
\* classified: the step that takes it stores it as it is as the value of the
\* last entry added, adds nothing to frees, fails on no byte of it and, even
\* if it is `--`, leaves `parsing` true; so a token after it that starts with
\* a dash is still parsed as a flag or as the `--`.
C12_ValueTokenNotClassified ==
    /\ [][ (TakesToken /\ TakenCount = 2) =>
             LET value == inputs'[Len(inputs')]
                 added == Len(result_flags') - Len(result_flags)
             IN  /\ added >= 1
                 /\ SubSeq(result_flags', 1, Len(result_flags)) = result_flags
                 /\ result_flags'[Len(result_flags')][2] = Some(value)
                 /\ \A k \in 1..(added - 1) :
                      result_flags'[Len(result_flags) + k][2] = None
                 /\ frees' = frees
                 /\ parsing'
                 /\ ret' = None ]_vars
    /\ [](\A i \in 1..Len(inputs) :
            uses[i] = "value" =>
              /\ ~SentinelBefore(i + 1)
              /\ (i < Len(inputs) /\ StartsWithDash(inputs[i + 1])) =>
                   uses[i + 1] \in {"flag", "sentinel"})

\* C12's case: `--` has been taken as the value of the Necessary short flag
\* `c`: it is the value, frees are empty and options are still being parsed.
C12_Witness ==
    /\ ret = None
    /\ inputs = << <<"-", "c">>, DashDash >>
    /\ uses = <<"flag", "value">>
    /\ result_flags = << <<Short("c"), Some(DashDash)>> >>
    /\ frees = <<>>
    /\ parsing

\* The loop of parse is straight-line code that nothing suspends: a step it
\* can take, it takes.
FairSpec == Spec /\ WF_vars(Next)

\* The number of tokens used as `use`.
Used(use) == Cardinality({ i \in 1..Len(uses) : uses[i] = use })

\* The tokens used as free tokens among the first n, in order.
RECURSIVE FreeTokens(_)
FreeTokens(n) ==
    IF n = 0 THEN <<>>
    ELSE IF uses[n] = "free" THEN Append(FreeTokens(n - 1), inputs[n])
    ELSE FreeTokens(n - 1)

\* Whether the use recorded for token i is one its bytes and its place allow.
UseAllowed(i) ==
    CASE uses[i] = "sentinel" -> inputs[i] = DashDash /\ ~SentinelBefore(i)
      [] uses[i] = "flag" -> /\ StartsWithDash(inputs[i])
                             /\ inputs[i] # DashDash
                             /\ ~SentinelBefore(i)
      [] uses[i] = "value" -> i > 1 /\ uses[i - 1] = "flag" /\ ~SentinelBefore(i)
      [] uses[i] = "free" -> SentinelBefore(i) \/ ~StartsWithDash(inputs[i])
      [] OTHER -> FALSE

\* C13: parse returns, and it takes the tokens in one forward pass: every
\* step before the return takes one or two more tokens and leaves the ones
\* taken as they are; every token has one use, the sentinel, a flag token,
\* the value of the flag token right before it, or a free token; frees are
\* the free tokens in order, every value token is the value of an entry, and
\* on success the number of tokens is the number of frees plus the flag
\* tokens plus the value tokens, plus one if the sentinel was taken.
C13_SinglePassTerminates ==
    /\ <>(ret # None)
    /\ [][ ret' = None =>
             /\ Len(inputs') \in {Len(inputs) + 1, Len(inputs) + 2}
             /\ SubSeq(inputs', 1, Len(inputs)) = inputs ]_vars
    /\ [](/\ Len(uses) = Len(inputs)
          /\ \A i \in 1..Len(inputs) : UseAllowed(i)
          /\ Used("sentinel") = (IF parsing THEN 0 ELSE 1)
          /\ ret = None => frees = FreeTokens(Len(inputs))
          /\ \A i \in 1..Len(inputs) :
               uses[i] = "value" =>
                 \E k \in 1..Len(result_flags) :
                   result_flags[k][2] = Some(inputs[i]))
    /\ [](Returned =>
            /\ ret[1].value.frees = FreeTokens(Len(inputs))
            /\ Len(inputs) = Len(ret[1].value.frees) + Used("flag")
                               + Used("value") + (IF parsing THEN 0 ELSE 1))

\* C13's case: a parse has returned Ok for a flag token, the token after it
\* taken as its value, and the sentinel.
C13_Witness ==
    /\ Returned
    /\ Len(inputs) = 3
    /\ uses = <<"flag", "value", "sentinel">>
    /\ Len(ret[1].value.flags) = 1
    /\ ret[1].value.frees = <<>>

=============================================================================
